---- MODULE Spec2Model ----
(***************************************************************************)
(* Model of src/dependency_visualizer.py (class DependencyVisualizer).     *)
(*                                                                         *)
(* A Python str is a sequence of one-character strings; the character      *)
(* U+0411 (CYRILLIC CAPITAL LETTER BE) is written "U+0411".  A Python dict *)
(* is an association list in insertion order with distinct keys.           *)
(*                                                                         *)
(* Specifications:                                                         *)
(*   SpecDfs   build_dependency_graph_dfs, one while-iteration per step    *)
(*   SpecRev   build_reverse_dependencies + find_reverse_dependencies_dfs  *)
(*   SpecEmit  generate_mermaid_diagram                                    *)
(*   Spec      run(): load_graph_from_file line by line, get_dependencies, *)
(*             then the display stages                                     *)
(***************************************************************************)
EXTENDS Naturals, Sequences, FiniteSets, TLC

VARIABLES
    pc,                   \* position in the method being run
    dependency_graph,     \* self.dependency_graph
    reverse_dependencies, \* self.reverse_dependencies
    package_name,         \* self.settings['package_name']
    stack,                \* local work list of the running traversal
    visited,              \* local visited set of the running traversal
    package_graph,        \* local package_graph of build_dependency_graph_dfs
    cycles,               \* local cycles of build_dependency_graph_dfs
    reverse_deps,         \* local reverse_deps of find_reverse_dependencies_dfs
    mermaid_code,         \* local mermaid_code of generate_mermaid_diagram
    line_num,             \* enumerate(f, 1) counter of load_graph_from_file
    line,                 \* the line load_graph_from_file has read last
    graph_data,           \* local graph_data of load_graph_from_file
    error,                \* the exception that ended the run, or NoError
    output,               \* what the run has printed, one record per display stage
    config                \* self.config / the boolean settings, fixed by load_config

vars == <<pc, dependency_graph, reverse_dependencies, package_name, stack, visited,
          package_graph, cycles, reverse_deps, mermaid_code, line_num, line,
          graph_data, error, output, config>>

-----------------------------------------------------------------------------
(* Bounds of the model.                                                    *)

\* number of dependency entries, over all its lists, of a graph given directly to
\* a traversal
MaxEdges == 4
\* number of lines of a graph description file
MaxLines == 2
\* longest line of a graph description file
MaxLineLen == 3

\* identifiers of the graphs given directly to the traversals
Packages == {<<"A">>, <<"B">>, <<"C">>}
PackageOrder == << <<"A">>, <<"B">>, <<"C">> >>

-----------------------------------------------------------------------------
(* Python dict: insertion-ordered association list.                        *)

EmptyDict == <<>>

DictKeys(d) == [i \in 1..Len(d) |-> d[i].k]

DictKeySet(d) == {d[i].k : i \in 1..Len(d)}

DictHas(d, key) == \E i \in 1..Len(d) : d[i].k = key

DictGet(d, key) == d[CHOOSE i \in 1..Len(d) : d[i].k = key].v

\* d[key] = value: an existing key keeps its position
DictSet(d, key, value) ==
    IF DictHas(d, key)
    THEN [i \in 1..Len(d) |-> IF d[i].k = key THEN [k |-> key, v |-> value] ELSE d[i]]
    ELSE Append(d, [k |-> key, v |-> value])

\* x in list
InSeq(x, s) == \E i \in 1..Len(s) : s[i] = x

\* list.index(x), for x in list
IndexOf(x, s) == CHOOSE i \in 1..Len(s) : s[i] = x /\ \A j \in 1..(i - 1) : s[j] # x

-----------------------------------------------------------------------------
(* build_dependency_graph_dfs                                              *)

\* DfsForDeps with the cycle test made against the ancestors only, path[:-1]: a
\* dependency of a node on itself is no longer seen
RECURSIVE DfsForDepsAncestorsOnly(_, _, _, _, _, _)
DfsForDepsAncestorsOnly(deps, i, path, depth, vis, acc) ==
    IF i > Len(deps) THEN acc
    ELSE LET dependency == deps[i]
             appended == Append(acc.deps, dependency)
         IN  IF InSeq(dependency, SubSeq(path, 1, Len(path) - 1))
             THEN DfsForDepsAncestorsOnly(deps, i + 1, path, depth, vis,
                      [deps   |-> appended,
                       cycles |-> Append(acc.cycles,
                                     SubSeq(path, IndexOf(dependency, path), Len(path))
                                         \o <<dependency>>),
                       stack  |-> acc.stack])
             ELSE IF dependency \notin vis
             THEN DfsForDepsAncestorsOnly(deps, i + 1, path, depth, vis,
                      [deps   |-> appended,
                       cycles |-> acc.cycles,
                       stack  |-> Append(acc.stack,
                                     [node  |-> dependency,
                                      path  |-> Append(path, dependency),
                                      depth |-> depth + 1])])
             ELSE DfsForDepsAncestorsOnly(deps, i + 1, path, depth, vis,
                      [deps |-> appended, cycles |-> acc.cycles, stack |-> acc.stack])

\* the for-loop over self.dependency_graph[current_node], from its i-th element;
\* acc = [deps |-> package_graph[current_node], cycles, stack]
RECURSIVE DfsForDeps(_, _, _, _, _, _)
DfsForDeps(deps, i, path, depth, vis, acc) ==
    IF i > Len(deps) THEN acc
    ELSE LET dependency == deps[i]
             appended == Append(acc.deps, dependency)
         IN  IF InSeq(dependency, path)
             THEN DfsForDeps(deps, i + 1, path, depth, vis,
                      [deps   |-> appended,
                       cycles |-> Append(acc.cycles,
                                     SubSeq(path, IndexOf(dependency, path), Len(path))
                                         \o <<dependency>>),
                       stack  |-> acc.stack])
             ELSE IF dependency \notin vis
             THEN DfsForDeps(deps, i + 1, path, depth, vis,
                      [deps   |-> appended,
                       cycles |-> acc.cycles,
                       stack  |-> Append(acc.stack,
                                     [node  |-> dependency,
                                      path  |-> Append(path, dependency),
                                      depth |-> depth + 1])])
             ELSE DfsForDeps(deps, i + 1, path, depth, vis,
                      [deps |-> appended, cycles |-> acc.cycles, stack |-> acc.stack])

\* DfsIteration with package_graph[current_node] created only inside the test of
\* line 189: a never-declared dependency gets no entry
DfsIterationDeclaredOnly(graph, st) ==
    LET frame  == st.stack[Len(st.stack)]
        popped == SubSeq(st.stack, 1, Len(st.stack) - 1)
    IN  IF frame.node \in st.visited
        THEN [st EXCEPT !.stack = popped]
        ELSE LET vis == st.visited \cup {frame.node}
             IN  IF DictHas(graph, frame.node)
                 THEN LET acc == DfsForDeps(DictGet(graph, frame.node), 1, frame.path,
                                            frame.depth, vis,
                                            [deps |-> <<>>, cycles |-> st.cycles,
                                             stack |-> popped])
                      IN  [stack         |-> acc.stack,
                           visited       |-> vis,
                           package_graph |-> DictSet(st.package_graph, frame.node,
                                                     acc.deps),
                           cycles        |-> acc.cycles]
                 ELSE [st EXCEPT !.stack = popped, !.visited = vis]

\* one iteration of the while-loop; st = [stack, visited, package_graph, cycles]
DfsIteration(graph, st) ==
    LET frame  == st.stack[Len(st.stack)]
        popped == SubSeq(st.stack, 1, Len(st.stack) - 1)
    IN  IF frame.node \in st.visited
        THEN [st EXCEPT !.stack = popped]
        ELSE LET vis == st.visited \cup {frame.node}
                 acc == IF DictHas(graph, frame.node)
                        THEN DfsForDeps(DictGet(graph, frame.node), 1, frame.path,
                                        frame.depth, vis,
                                        [deps |-> <<>>, cycles |-> st.cycles,
                                         stack |-> popped])
                        ELSE [deps |-> <<>>, cycles |-> st.cycles, stack |-> popped]
             IN  [stack         |-> acc.stack,
                  visited       |-> vis,
                  package_graph |-> DictSet(st.package_graph, frame.node, acc.deps),
                  cycles        |-> acc.cycles]

\* the state before the while-loop
DfsStart(start_package) ==
    [stack         |-> <<[node |-> start_package, path |-> <<start_package>>, depth |-> 0]>>,
     visited       |-> {},
     package_graph |-> EmptyDict,
     cycles        |-> <<>>]

\* the whole while-loop
RECURSIVE DfsLoop(_, _)
DfsLoop(graph, st) ==
    IF st.stack = <<>> THEN st ELSE DfsLoop(graph, DfsIteration(graph, st))

\* the pair build_dependency_graph_dfs returns
BuildDependencyGraphDfs(graph, start_package) ==
    IF ~DictHas(graph, start_package)
    THEN [package_graph |-> EmptyDict, cycles |-> <<>>]
    ELSE LET st == DfsLoop(graph, DfsStart(start_package))
         IN  [package_graph |-> st.package_graph, cycles |-> st.cycles]

-----------------------------------------------------------------------------
(* Graphs given directly to a traversal: the first n identifiers of        *)
(* PackageOrder are declared, in that order (the traversals compare        *)
(* identifiers by equality only, so any graph over three identifiers is    *)
(* one of these up to renaming), with at most MaxEdges dependency entries  *)
(* in all, over Packages, repetitions and undeclared identifiers included. *)

\* the declarations as a flat list of <<index of the declaring key, dependency>>,
\* grouped by key
EdgeLists(n, ids) == UNION {
    {e \in [1..m -> (1..n) \X ids] : \A i \in 1..(m - 1) : e[i][1] <= e[i + 1][1]}
    : m \in 0..MaxEdges}

\* the dependency list the flat list e gives to the i-th key
RECURSIVE DepsOfKey(_, _)
DepsOfKey(e, i) ==
    IF e = <<>> THEN <<>>
    ELSE (IF Head(e)[1] = i THEN <<Head(e)[2]>> ELSE <<>>) \o DepsOfKey(Tail(e), i)

\* the graphs that declare a prefix of order, in that order
GraphsOn(order, ids) == UNION {
    {[i \in 1..n |-> [k |-> order[i], v |-> DepsOfKey(e, i)]] : e \in EdgeLists(n, ids)}
    : n \in 0..Len(order)}

NoError == [type |-> "none"]

\* the state of a fresh DependencyVisualizer (__init__), and no method running
Fresh ==
    /\ reverse_dependencies = EmptyDict
    /\ stack = <<>>
    /\ visited = {}
    /\ package_graph = EmptyDict
    /\ cycles = <<>>
    /\ reverse_deps = <<>>
    /\ mermaid_code = <<>>
    /\ line_num = 0
    /\ line = <<>>
    /\ graph_data = EmptyDict
    /\ error = NoError
    /\ output = <<>>
    /\ config = [name |-> <<>>, reverse_deps |-> FALSE, visualization |-> FALSE]

InitDfs ==
    /\ pc = "dfs_call"
    /\ dependency_graph \in GraphsOn(PackageOrder, Packages)
    /\ package_name \in Packages
    /\ Fresh

\* lines 172-178: the early return, or the initial locals
DfsEnter ==
    /\ pc = "dfs_call"
    /\ IF ~DictHas(dependency_graph, package_name)
       THEN /\ pc' = "dfs_done"
            /\ UNCHANGED <<stack, visited, package_graph, cycles>>
       ELSE /\ pc' = "dfs_loop"
            /\ stack' = DfsStart(package_name).stack
            /\ visited' = DfsStart(package_name).visited
            /\ package_graph' = DfsStart(package_name).package_graph
            /\ cycles' = DfsStart(package_name).cycles
    /\ UNCHANGED <<dependency_graph, reverse_dependencies, package_name, reverse_deps,
                   mermaid_code, line_num, line, graph_data, error, output, config>>

\* lines 180-200: one iteration of the while-loop
DfsStep ==
    /\ pc = "dfs_loop"
    /\ stack # <<>>
    /\ LET st == DfsIteration(dependency_graph,
                     [stack |-> stack, visited |-> visited,
                      package_graph |-> package_graph, cycles |-> cycles])
       IN  /\ stack' = st.stack
           /\ visited' = st.visited
           /\ package_graph' = st.package_graph
           /\ cycles' = st.cycles
    /\ UNCHANGED <<pc, dependency_graph, reverse_dependencies, package_name,
                   reverse_deps, mermaid_code, line_num, line, graph_data, error, output,
                   config>>

\* line 202: the loop has ended, the pair is returned
DfsReturn ==
    /\ pc = "dfs_loop"
    /\ stack = <<>>
    /\ pc' = "dfs_done"
    /\ UNCHANGED <<dependency_graph, reverse_dependencies, package_name, stack, visited,
                   package_graph, cycles, reverse_deps, mermaid_code, line_num, line,
                   graph_data, error, output, config>>

NextDfs == DfsEnter \/ DfsStep \/ DfsReturn

SpecDfs == InitDfs /\ [][NextDfs]_vars

-----------------------------------------------------------------------------
(* Graph notions the claims are stated with.                               *)

\* the set of direct dependencies of n (none for a never-declared identifier)
DepSet(graph, n) ==
    IF DictHas(graph, n)
    THEN {DictGet(graph, n)[i] : i \in 1..Len(DictGet(graph, n))}
    ELSE {}

RECURSIVE Closure(_, _)
Closure(graph, S) ==
    LET T == S \cup UNION {DepSet(graph, n) : n \in S}
    IN  IF T = S THEN S ELSE Closure(graph, T)

\* reachable from root by zero or more dependency edges
Reachable(graph, root) == Closure(graph, {root})

\* reachable from n by one or more dependency edges
ReachablePlus(graph, n) == Closure(graph, DepSet(graph, n))

\* some directed cycle lies in the part of the graph reachable from root
HasReachableCycle(graph, root) ==
    \E n \in Reachable(graph, root) : n \in ReachablePlus(graph, n)

RECURSIVE SumLens(_, _)
SumLens(graph, skip) ==
    IF graph = <<>> THEN 0
    ELSE (IF Head(graph).k \in skip THEN 0 ELSE Len(Head(graph).v))
         + SumLens(Tail(graph), skip)

\* a variant of the traversal: frames still to pop plus edges still to expand
DfsMeasure ==
    CASE pc = "dfs_call" -> 3 + SumLens(dependency_graph, {})
      [] pc = "dfs_loop" -> 1 + Len(stack) + SumLens(dependency_graph, visited)
      [] OTHER -> 0

\* the returned subgraph is the reachable part, with the declared lists
DfsCovers ==
    /\ \A i, j \in 1..Len(package_graph) :
           package_graph[i].k = package_graph[j].k => i = j
    /\ DictKeySet(package_graph) = Reachable(dependency_graph, package_name)
    /\ \A n \in DictKeySet(package_graph) :
           DictGet(package_graph, n) =
               IF DictHas(dependency_graph, n) THEN DictGet(dependency_graph, n)
               ELSE <<>>

(* C1: for every finite graph (self-loops and mutual cycles included) and   *)
(* every root that is a key, the forward traversal terminates (every step  *)
(* of it decreases the natural number DfsMeasure, and the loop guard lets   *)
(* it step until it returns), and the                                       *)
(* returned subgraph has as keys exactly the identifiers reachable from the *)
(* root, each once, each mapped to its declared dependency list in declared *)
(* order (the empty list for a never-declared leaf).                        *)
C1_TraversalTerminatesAndCovers ==
    [][/\ DfsMeasure' < DfsMeasure
       /\ (pc' = "dfs_done" /\ DictHas(dependency_graph', package_name'))
              => DfsCovers']_vars

\* a finished traversal of a graph with a self-loop, a mutual cycle and a
\* never-declared leaf, all reached
C1_Witness ==
    /\ pc = "dfs_done"
    /\ DictHas(dependency_graph, package_name)
    /\ Cardinality(DictKeySet(package_graph)) = 3
    /\ \E n \in DictKeySet(package_graph) : ~DictHas(dependency_graph, n)
    /\ \E n \in DictKeySet(package_graph) : n \in DepSet(dependency_graph, n)
    /\ \E n, m \in DictKeySet(package_graph) :
           /\ n # m
           /\ m \in DepSet(dependency_graph, n)
           /\ n \in DepSet(dependency_graph, m)

\* a recorded cycle: closed, and every consecutive pair an edge of the graph
IsCycleOf(graph, c) ==
    /\ Len(c) >= 2
    /\ c[1] = c[Len(c)]
    /\ \A i \in 1..(Len(c) - 1) : c[i + 1] \in DepSet(graph, c[i])

(* C2: the cycle list of a finished forward traversal from a root key is    *)
(* sound (every recorded cycle starts and ends at the same identifier and   *)
(* its consecutive elements are edges, so an acyclic graph yields none) and *)
(* complete (if the part reachable from the root has a directed cycle, a    *)
(* self-loop included, at least one cycle is recorded), whatever the        *)
(* declaration order.                                                       *)
C2_CyclesSoundAndComplete ==
    (pc = "dfs_done" /\ DictHas(dependency_graph, package_name)) =>
        /\ \A i \in 1..Len(cycles) : IsCycleOf(dependency_graph, cycles[i])
        /\ HasReachableCycle(dependency_graph, package_name) => cycles # <<>>

\* a finished traversal that recorded a cycle through three identifiers, found
\* from a node that a visited sibling also depends on
C2_Witness ==
    /\ pc = "dfs_done"
    /\ \E i \in 1..Len(cycles) : Len(cycles[i]) = 4
    /\ \E i \in 1..Len(cycles) : Len(cycles[i]) = 2

-----------------------------------------------------------------------------
(* build_reverse_dependencies, find_reverse_dependencies_dfs               *)

\* lines 209-210: an empty list for every declared package
RECURSIVE RevInitKeys(_, _)
RevInitKeys(graph, reverse_graph) ==
    IF graph = <<>> THEN reverse_graph
    ELSE RevInitKeys(Tail(graph), DictSet(reverse_graph, Head(graph).k, <<>>))

\* lines 214-217: the inner for-loop over one package's dependencies
RECURSIVE RevAddDeps(_, _, _)
RevAddDeps(package, dependencies, reverse_graph) ==
    IF dependencies = <<>> THEN reverse_graph
    ELSE LET dep  == Head(dependencies)
             have == IF DictHas(reverse_graph, dep) THEN reverse_graph
                     ELSE DictSet(reverse_graph, dep, <<>>)
         IN  RevAddDeps(package, Tail(dependencies),
                        DictSet(have, dep, Append(DictGet(have, dep), package)))

\* lines 213-217: the outer for-loop over the items of the graph
RECURSIVE RevFill(_, _)
RevFill(graph, reverse_graph) ==
    IF graph = <<>> THEN reverse_graph
    ELSE RevFill(Tail(graph), RevAddDeps(Head(graph).k, Head(graph).v, reverse_graph))

BuildReverseDependencies(graph) == RevFill(graph, RevInitKeys(graph, EmptyDict))

\* RevForDependents that appends a dependent without pushing it: the dependents of
\* a dependent are never looked at
RECURSIVE RevForDependentsDirectOnly(_, _, _)
RevForDependentsDirectOnly(dependents, vis, acc) ==
    IF dependents = <<>> THEN acc
    ELSE LET dependent == Head(dependents)
         IN  IF dependent \notin vis
             THEN RevForDependentsDirectOnly(Tail(dependents), vis,
                      [reverse_deps |-> Append(acc.reverse_deps, dependent),
                       stack        |-> acc.stack])
             ELSE RevForDependentsDirectOnly(Tail(dependents), vis, acc)

\* lines 238-241: the for-loop over the dependents of the popped node;
\* acc = [reverse_deps, stack]
RECURSIVE RevForDependents(_, _, _)
RevForDependents(dependents, vis, acc) ==
    IF dependents = <<>> THEN acc
    ELSE LET dependent == Head(dependents)
         IN  IF dependent \notin vis
             THEN RevForDependents(Tail(dependents), vis,
                      [reverse_deps |-> Append(acc.reverse_deps, dependent),
                       stack        |-> Append(acc.stack, dependent)])
             ELSE RevForDependents(Tail(dependents), vis, acc)

\* lines 231-241: one iteration of the while-loop; st = [stack, visited, reverse_deps]
RevIteration(reverse_graph, st) ==
    LET current_node == st.stack[Len(st.stack)]
        popped       == SubSeq(st.stack, 1, Len(st.stack) - 1)
    IN  IF current_node \in st.visited
        THEN [st EXCEPT !.stack = popped]
        ELSE LET vis == st.visited \cup {current_node}
                 acc == IF DictHas(reverse_graph, current_node)
                        THEN RevForDependents(DictGet(reverse_graph, current_node), vis,
                                 [reverse_deps |-> st.reverse_deps, stack |-> popped])
                        ELSE [reverse_deps |-> st.reverse_deps, stack |-> popped]
             IN  [stack |-> acc.stack, visited |-> vis, reverse_deps |-> acc.reverse_deps]

\* lines 226-228: the state before the while-loop
RevStart(target_package) ==
    [stack |-> <<target_package>>, visited |-> {}, reverse_deps |-> <<>>]

RECURSIVE RevLoop(_, _)
RevLoop(reverse_graph, st) ==
    IF st.stack = <<>> THEN st ELSE RevLoop(reverse_graph, RevIteration(reverse_graph, st))

\* the list find_reverse_dependencies_dfs returns
FindReverseDependenciesDfs(reverse_graph, target_package) ==
    IF ~DictHas(reverse_graph, target_package) THEN <<>>
    ELSE RevLoop(reverse_graph, RevStart(target_package)).reverse_deps

InitRev ==
    /\ pc = "rev_build"
    /\ dependency_graph \in GraphsOn(PackageOrder, Packages)
    /\ package_name \in Packages
    /\ Fresh

\* line 323: self.reverse_dependencies = self.build_reverse_dependencies()
RevBuild ==
    /\ pc = "rev_build"
    /\ reverse_dependencies' = BuildReverseDependencies(dependency_graph)
    /\ pc' = "rev_call"
    /\ UNCHANGED <<dependency_graph, package_name, stack, visited, package_graph, cycles,
                   reverse_deps, mermaid_code, line_num, line, graph_data, error, output,
                   config>>

\* lines 223-228: the early return, or the initial locals
RevEnter ==
    /\ pc = "rev_call"
    /\ IF ~DictHas(reverse_dependencies, package_name)
       THEN /\ pc' = "rev_done"
            /\ UNCHANGED <<stack, visited, reverse_deps>>
       ELSE /\ pc' = "rev_loop"
            /\ stack' = RevStart(package_name).stack
            /\ visited' = RevStart(package_name).visited
            /\ reverse_deps' = RevStart(package_name).reverse_deps
    /\ UNCHANGED <<dependency_graph, reverse_dependencies, package_name, package_graph,
                   cycles, mermaid_code, line_num, line, graph_data, error, output, config>>

\* lines 230-241: one iteration of the while-loop
RevStep ==
    /\ pc = "rev_loop"
    /\ stack # <<>>
    /\ LET st == RevIteration(reverse_dependencies,
                     [stack |-> stack, visited |-> visited, reverse_deps |-> reverse_deps])
       IN  /\ stack' = st.stack
           /\ visited' = st.visited
           /\ reverse_deps' = st.reverse_deps
    /\ UNCHANGED <<pc, dependency_graph, reverse_dependencies, package_name,
                   package_graph, cycles, mermaid_code, line_num, line, graph_data, error,
                   output, config>>

\* line 243: the loop has ended, the list is returned
RevReturn ==
    /\ pc = "rev_loop"
    /\ stack = <<>>
    /\ pc' = "rev_done"
    /\ UNCHANGED <<dependency_graph, reverse_dependencies, package_name, stack, visited,
                   package_graph, cycles, reverse_deps, mermaid_code, line_num, line,
                   graph_data, error, output, config>>

NextRev == RevBuild \/ RevEnter \/ RevStep \/ RevReturn

SpecRev == InitRev /\ [][NextRev]_vars

\* every identifier that occurs in the graph, as a key or as a dependency
Mentioned(graph) == DictKeySet(graph) \cup UNION {DepSet(graph, n) : n \in DictKeySet(graph)}

SeqSet(s) == {s[i] : i \in 1..Len(s)}

(* C3: with the reverse graph built from the dependency graph, for every    *)
(* target that appears in the graph, a package p other than the target is   *)
(* in the result of find_reverse_dependencies_dfs(target), read as a set,   *)
(* if and only if a non-empty chain of dependency edges leads from p to the *)
(* target.                                                                  *)
C3_ReverseClosure ==
    (pc = "rev_done" /\ package_name \in Mentioned(dependency_graph)) =>
        \A p \in Packages \ {package_name} :
            p \in SeqSet(reverse_deps)
                <=> package_name \in ReachablePlus(dependency_graph, p)

\* a finished search for a never-declared target that found a direct and an
\* indirect dependent and left out a package that does not depend on it
C3_Witness ==
    /\ pc = "rev_done"
    /\ ~DictHas(dependency_graph, package_name)
    /\ \E p \in SeqSet(reverse_deps) : package_name \in DepSet(dependency_graph, p)
    /\ \E p \in SeqSet(reverse_deps) : package_name \notin DepSet(dependency_graph, p)

(* C4: the target appears in the result of                                  *)
(* find_reverse_dependencies_dfs(target) if and only if the target lies on  *)
(* a dependency cycle (a self-loop or a longer loop through other packages).*)
C4_TargetListedIffOnCycle ==
    (pc = "rev_done" /\ package_name \in Mentioned(dependency_graph)) =>
        (package_name \in SeqSet(reverse_deps)
            <=> package_name \in ReachablePlus(dependency_graph, package_name))

(* C10: each package identifier appears at most once in the list returned   *)
(* by find_reverse_dependencies_dfs, also when it is a direct dependent of  *)
(* several packages that are expanded at different times.                   *)
C10_NoDuplicateDependents ==
    pc = "rev_done" =>
        \A i, j \in 1..Len(reverse_deps) : reverse_deps[i] = reverse_deps[j] => i = j

-----------------------------------------------------------------------------
(* generate_mermaid_diagram                                                *)

\* ord(c) of the characters a connection line is made of
Ord(c) ==
    CASE c = " " -> 32
      [] c = "-" -> 45
      [] c = ">" -> 62
      [] c = "A" -> 65
      [] c = "B" -> 66
      [] c = "C" -> 67
      [] c = "U+0411" -> 1041

\* str < str: the first differing character decides, a proper prefix is smaller
RECURSIVE StrLess(_, _)
StrLess(x, y) ==
    IF y = <<>> THEN FALSE
    ELSE IF x = <<>> THEN TRUE
    ELSE IF Head(x) # Head(y) THEN Ord(Head(x)) < Ord(Head(y))
    ELSE StrLess(Tail(x), Tail(y))

\* sorted(set of str)
RECURSIVE Sorted(_)
Sorted(S) ==
    IF S = {} THEN <<>>
    ELSE LET least == CHOOSE x \in S : \A y \in S \ {x} : StrLess(x, y)
         IN  <<least>> \o Sorted(S \ {least})

\* f"    {package} --> {dep}"
Connection(package, dep) ==
    <<" ", " ", " ", " ">> \o package \o <<" ", "-", "-", ">", " ">> \o dep

\* lines 252-256: the set of connection lines of the graph
RECURSIVE Connections(_)
Connections(graph) ==
    IF graph = <<>> THEN {}
    ELSE {Connection(Head(graph).k, Head(graph).v[i]) : i \in 1..Len(Head(graph).v)}
         \cup Connections(Tail(graph))

\* lines 259-260: every line followed by "\n"
RECURSIVE JoinLines(_)
JoinLines(lines) ==
    IF lines = <<>> THEN <<>>
    ELSE Head(lines) \o <<"\n">> \o JoinLines(Tail(lines))

\* "graph TD"
Header == <<"g", "r", "a", "p", "h", " ", "T", "D">>

\* f"    style {root_package} fill:#f9f,stroke:#333,stroke-width:2px"
StyleLine(root_package) ==
    <<" ", " ", " ", " ", "s", "t", "y", "l", "e", " ">> \o root_package
    \o <<" ", "f", "i", "l", "l", ":", "#", "f", "9", "f", ",",
         "s", "t", "r", "o", "k", "e", ":", "#", "3", "3", "3", ",",
         "s", "t", "r", "o", "k", "e", "-", "w", "i", "d", "t", "h", ":", "2", "p", "x">>

\* the connection lines in the order the mapping gives them, each once
RECURSIVE ConnectionsInOrder(_, _, _)
ConnectionsInOrder(graph, i, seen) ==
    IF graph = <<>> THEN seen
    ELSE IF i > Len(Head(graph).v) THEN ConnectionsInOrder(Tail(graph), 1, seen)
    ELSE LET c == Connection(Head(graph).k, Head(graph).v[i])
         IN  ConnectionsInOrder(graph, i + 1, IF InSeq(c, seen) THEN seen ELSE Append(seen, c))

\* GenerateMermaidDiagram without the sorted() of line 259
GenerateMermaidDiagramUnsorted(graph, root_package) ==
    Header \o <<"\n">> \o JoinLines(ConnectionsInOrder(graph, 1, <<>>))
        \o StyleLine(root_package)

\* the text generate_mermaid_diagram returns; root_package is settings['package_name']
GenerateMermaidDiagram(graph, root_package) ==
    Header \o <<"\n">> \o JoinLines(Sorted(Connections(graph))) \o StyleLine(root_package)

\* identifiers of the graphs given to the emitter: one is a proper prefix of another
EmitIds == {<<"A">>, <<"B">>, <<"A", "B">>}

Orders(ids) == {o \in [1..Cardinality(ids) -> ids] : \A i, j \in DOMAIN o : o[i] = o[j] => i = j}

\* the input graphs of the emitter: every key enumeration order
EmitGraphs(ids) == UNION {GraphsOn(o, ids) : o \in Orders(ids)}

InitEmit ==
    /\ pc = "emit_call"
    /\ dependency_graph \in EmitGraphs(EmitIds)
    /\ package_name \in EmitIds
    /\ Fresh

\* lines 245-266
Emit ==
    /\ pc = "emit_call"
    /\ mermaid_code' = GenerateMermaidDiagram(dependency_graph, package_name)
    /\ pc' = "emit_done"
    /\ UNCHANGED <<dependency_graph, reverse_dependencies, package_name, stack, visited,
                   package_graph, cycles, reverse_deps, line_num, line, graph_data, error,
                   output, config>>

NextEmit == Emit

SpecEmit == InitEmit /\ [][NextEmit]_vars

\* text.split("\n"): the pieces between consecutive line breaks
SplitLines(text) ==
    LET breaks == {0, Len(text) + 1} \cup {i \in 1..Len(text) : text[i] = "\n"}
        nth(k) == CHOOSE b \in breaks : Cardinality({x \in breaks : x < b}) = k - 1
    IN  [k \in 1..(Cardinality(breaks) - 1) |->
            SubSeq(text, nth(k) + 1, nth(k + 1) - 1)]

\* the distinct (package, dependency) pairs of a mapping
EdgePairs(graph) ==
    UNION {{<<n, d>> : d \in DepSet(graph, n)} : n \in DictKeySet(graph)}

\* the same mapping enumerated in another key order
Reordered(graph, o) == [i \in 1..Len(graph) |-> graph[o[i]]]

\* the same mapping with every dependency list followed by its own reverse
Doubled(graph) ==
    [i \in 1..Len(graph) |->
        [k |-> graph[i].k,
         v |-> graph[i].v \o [j \in 1..Len(graph[i].v) |->
                                  graph[i].v[Len(graph[i].v) + 1 - j]]]]

(* C9: the diagram text is the header line, then exactly one edge line per  *)
(* distinct (package, dependency) pair of the mapping in ascending          *)
(* lexicographic order, then exactly one style line naming the root; hence  *)
(* a mapping with the same edge set but another key enumeration order or    *)
(* repeated edges gives the identical text.                                 *)
C9_DiagramCanonical ==
    pc = "emit_done" =>
        LET lines == SplitLines(mermaid_code)
            n     == Len(lines)
            edges == EdgePairs(dependency_graph)
        IN  /\ n = Cardinality(edges) + 2
            /\ lines[1] = Header
            /\ lines[n] = StyleLine(package_name)
            /\ {lines[i] : i \in 2..(n - 1)} = {Connection(e[1], e[2]) : e \in edges}
            /\ \A i \in 2..(n - 2) : StrLess(lines[i], lines[i + 1])
            /\ \A o \in {p \in [1..Len(dependency_graph) -> 1..Len(dependency_graph)] :
                             \A i, j \in DOMAIN p : p[i] = p[j] => i = j} :
                   GenerateMermaidDiagram(Reordered(dependency_graph, o), package_name)
                       = mermaid_code
            /\ GenerateMermaidDiagram(Doubled(dependency_graph), package_name)
                   = mermaid_code

\* a diagram of three declared packages with a repeated edge, whose keys are
\* not declared in ascending order and one of whose names is a prefix of another
C9_Witness ==
    /\ pc = "emit_done"
    /\ Len(dependency_graph) = 3
    /\ StrLess(dependency_graph[2].k, dependency_graph[1].k)
    /\ \E i \in 1..3 : Len(dependency_graph[i].v) > Cardinality(SeqSet(dependency_graph[i].v))
    /\ Cardinality(EdgePairs(dependency_graph)) = 3
    /\ \A i \in 1..3 : dependency_graph[i].v # <<>>

-----------------------------------------------------------------------------
(* load_graph_from_file                                                    *)

\* the characters a line of the description is made of ("\n", which ends a line,
\* is removed by line.strip() and is left out)
LineChars == {"A", "B", "a", "U+0411", ":", ",", " ", "#"}

\* str.isupper() looks at the cased characters, str.isalpha() at the letters
UpperChars == {"A", "B", "U+0411"}
LowerChars == {"a"}
AlphaChars == UpperChars \cup LowerChars

\* the letters A-Z among LineChars
LatinUpperChars == {"A", "B"}

\* s.isupper(): at least one cased character, and no lowercase one
IsUpper(s) ==
    /\ \E i \in 1..Len(s) : s[i] \in UpperChars
    /\ \A i \in 1..Len(s) : s[i] \notin LowerChars

\* s.isalpha(): not empty, and letters only
IsAlpha(s) == s # <<>> /\ \A i \in 1..Len(s) : s[i] \in AlphaChars

\* s.strip()
RECURSIVE LStrip(_)
LStrip(s) == IF s # <<>> /\ Head(s) = " " THEN LStrip(Tail(s)) ELSE s

RECURSIVE RStrip(_)
RStrip(s) ==
    IF s # <<>> /\ s[Len(s)] = " " THEN RStrip(SubSeq(s, 1, Len(s) - 1)) ELSE s

Strip(s) == RStrip(LStrip(s))

\* s.split(sep): the pieces between the separators, empty pieces included
RECURSIVE Split(_, _, _)
Split(s, sep, current) ==
    IF s = <<>> THEN <<current>>
    ELSE IF Head(s) = sep THEN <<current>> \o Split(Tail(s), sep, <<>>)
    ELSE Split(Tail(s), sep, Append(current, Head(s)))

\* lines 144-151: the for-loop over deps_str.split(','); the result is the list of
\* dependencies, or the GraphError of the first invalid one
RECURSIVE ParseDeps(_, _)
ParseDeps(pieces, dependencies) ==
    IF pieces = <<>> THEN [ok |-> TRUE, dependencies |-> dependencies]
    ELSE LET dep == Strip(Head(pieces))
         IN  IF dep = <<>> THEN ParseDeps(Tail(pieces), dependencies)
             ELSE IF ~IsUpper(dep) \/ ~IsAlpha(dep)
             THEN [ok |-> FALSE, message |-> "dependency name", name |-> dep]
             ELSE ParseDeps(Tail(pieces), Append(dependencies, dep))

\* lines 127-153: the body of the for-loop over the lines of the file; raw is the
\* line without its line break, text is line after line 127.  kind is "skip" (continue), "entry"
\* (graph_data[package] = dependencies) or "error" (raise GraphError); a message
\* holds what the f-string puts into it
ParseLine(raw, num) ==
    LET text == Strip(raw)
    IN  IF text = <<>> \/ Head(text) = "#" THEN [kind |-> "skip"]
        ELSE IF ~InSeq(":", text)
        THEN [kind |-> "error",
              error |-> [type |-> "GraphError", message |-> "format",
                         line_num |-> num, line |-> text]]
        ELSE LET colon    == IndexOf(":", text)
                 package  == Strip(SubSeq(text, 1, colon - 1))
                 deps_str == SubSeq(text, colon + 1, Len(text))
             IN  IF ~IsUpper(package) \/ ~IsAlpha(package)
                 THEN [kind |-> "error",
                       error |-> [type |-> "GraphError", message |-> "package name",
                                  name |-> package]]
                 ELSE LET parsed == IF Strip(deps_str) # <<>>
                                    THEN ParseDeps(Split(deps_str, ",", <<>>), <<>>)
                                    ELSE [ok |-> TRUE, dependencies |-> <<>>]
                      IN  IF parsed.ok
                          THEN [kind |-> "entry", package |-> package,
                                dependencies |-> parsed.dependencies]
                          ELSE [kind |-> "error",
                                error |-> [type |-> "GraphError",
                                           message |-> parsed.message,
                                           name |-> parsed.name]]

\* the lines a description file may hold
Lines(longest) == UNION {[1..n -> LineChars] : n \in 0..longest}

-----------------------------------------------------------------------------
(* run(): load_config, display_settings, get_dependencies, the displays    *)

\* package.name values of the configuration
RequestedNames == {<<"A">>, <<"B">>}

\* lines 317-320: the configured name, or the first key when it is not a key
ResolveRootName(graph, name) ==
    IF ~DictHas(graph, name)
    THEN LET available_packages == DictKeys(graph)
         IN  IF available_packages # <<>> THEN available_packages[1] ELSE name
    ELSE name

\* what get_dependencies leaves behind once the graph is loaded (lines 317-325):
\* the settings entry, the reverse graph, the returned dict, and what it printed
GetDependenciesOutcome(graph, name) ==
    [package_name         |-> ResolveRootName(graph, name),
     reverse_dependencies |-> BuildReverseDependencies(graph),
     returned             |-> EmptyDict,
     printed              |-> <<>>]

\* sorted(list of str)
RECURSIVE SortedList(_)
SortedList(s) ==
    IF s = <<>> THEN <<>>
    ELSE LET i == CHOOSE i \in 1..Len(s) :
                      /\ \A j \in 1..Len(s) : ~StrLess(s[j], s[i])
                      /\ \A j \in 1..(i - 1) : s[j] # s[i]
         IN  <<s[i]>> \o SortedList(SubSeq(s, 1, i - 1) \o SubSeq(s, i + 1, Len(s)))

\* the "package -> dependencies" lines of a report, sorted by package
ReportLines(graph) ==
    LET keys == SortedList(DictKeys(graph))
    IN  [i \in 1..Len(keys) |-> [k |-> keys[i], v |-> DictGet(graph, keys[i])]]

\* lines 162-168: a copy of the graph
BuildFullDependencyGraph(graph) ==
    [i \in 1..Len(graph) |-> [k |-> graph[i].k, v |-> graph[i].v]]

Init ==
    /\ pc = "load_config"
    /\ dependency_graph = EmptyDict
    /\ package_name = <<>>
    /\ Fresh

\* lines 406-407: load_config stores the settings, display_settings prints them
LoadConfig ==
    /\ pc = "load_config"
    /\ \E name \in RequestedNames, reverse \in BOOLEAN, visualization \in BOOLEAN :
           /\ config' = [name |-> name, reverse_deps |-> reverse,
                         visualization |-> visualization]
           /\ package_name' = name
           /\ output' = Append(output, [stage |-> "settings", package |-> name])
    /\ pc' = "load"
    /\ UNCHANGED <<dependency_graph, reverse_dependencies, stack, visited, package_graph,
                   cycles, reverse_deps, mermaid_code, line_num, line, graph_data,
                   error>>

\* lines 126-153: one iteration of the for-loop over the file; a GraphError is
\* wrapped by line 158, printed by line 426 and ends the run with exit status 1
LoadLine ==
    /\ pc = "load"
    /\ line_num < MaxLines
    /\ \E raw \in Lines(MaxLineLen) :
           LET parsed == ParseLine(raw, line_num + 1)
           IN  /\ line' = raw
               /\ line_num' = line_num + 1
               /\ graph_data' =
                      IF parsed.kind = "entry"
                      THEN DictSet(graph_data, parsed.package, parsed.dependencies)
                      ELSE graph_data
               /\ IF parsed.kind = "error"
                  THEN /\ error' = [type |-> "GraphError", message |-> "read",
                                    cause |-> parsed.error]
                       /\ output' = Append(output, [stage |-> "error",
                                                    cause |-> parsed.error])
                       /\ pc' = "exit_1"
                  ELSE UNCHANGED <<error, output, pc>>
    /\ UNCHANGED <<dependency_graph, reverse_dependencies, package_name, stack, visited,
                   package_graph, cycles, reverse_deps, mermaid_code, config>>

\* lines 155 and 314: the file has ended, the graph is returned and stored
LoadReturn ==
    /\ pc = "load"
    /\ dependency_graph' = graph_data
    /\ pc' = "resolve"
    /\ UNCHANGED <<reverse_dependencies, package_name, stack, visited, package_graph,
                   cycles, reverse_deps, mermaid_code, line_num, line, graph_data,
                   error, output, config>>

\* lines 317-325: root resolution and the reverse graph
ResolveRoot ==
    /\ pc = "resolve"
    /\ package_name' = ResolveRootName(dependency_graph, package_name)
    /\ reverse_dependencies' = BuildReverseDependencies(dependency_graph)
    /\ pc' = "display_graph"
    /\ UNCHANGED <<dependency_graph, stack, visited, package_graph, cycles,
                   reverse_deps, mermaid_code, line_num, line, graph_data, error,
                   output, config>>

\* line 412, lines 343-360: the adjacency report of the full graph
DisplayDependencyGraph ==
    /\ pc = "display_graph"
    /\ LET full_graph == BuildFullDependencyGraph(dependency_graph)
       IN  output' = Append(output,
               [stage              |-> "full_graph",
                lines              |-> ReportLines(full_graph),
                total_packages     |-> Len(full_graph),
                total_dependencies |-> SumLens(full_graph, {})])
    /\ pc' = "display_package"
    /\ UNCHANGED <<dependency_graph, reverse_dependencies, package_name, stack, visited,
                   package_graph, cycles, reverse_deps, mermaid_code, line_num, line,
                   graph_data, error, config>>

\* line 415, lines 362-374: the subgraph of the package
DisplayPackageDependencies ==
    /\ pc = "display_package"
    /\ LET result == BuildDependencyGraphDfs(dependency_graph, package_name)
       IN  /\ package_graph' = result.package_graph
           /\ cycles' = result.cycles
           /\ output' = Append(output,
                  [stage   |-> "package",
                   package |-> package_name,
                   lines   |-> ReportLines(result.package_graph),
                   count   |-> Len(result.package_graph)])
    /\ pc' = "display_reverse"
    /\ UNCHANGED <<dependency_graph, reverse_dependencies, package_name, stack, visited,
                   reverse_deps, mermaid_code, line_num, line, graph_data, error,
                   config>>

\* lines 418-419, 376-401: the reverse dependencies, when the mode is on
DisplayReverseDependencies ==
    /\ pc = "display_reverse"
    /\ IF config.reverse_deps
       THEN IF ~DictHas(reverse_dependencies, package_name)
            THEN /\ output' = Append(output, [stage |-> "reverse",
                                              package |-> package_name,
                                              known |-> FALSE])
                 /\ UNCHANGED reverse_deps
            ELSE LET found == FindReverseDependenciesDfs(reverse_dependencies,
                                                         package_name)
                 IN  /\ reverse_deps' = found
                     /\ output' = Append(output, [stage |-> "reverse",
                                                  package |-> package_name,
                                                  known |-> TRUE,
                                                  lines |-> SortedList(found),
                                                  total |-> Len(found)])
       ELSE UNCHANGED <<reverse_deps, output>>
    /\ pc' = "visualize"
    /\ UNCHANGED <<dependency_graph, reverse_dependencies, package_name, stack, visited,
                   package_graph, cycles, mermaid_code, line_num, line, graph_data,
                   error, config>>

\* lines 422-423, 268-281: the diagram of the full graph, when the mode is on
VisualizeDependencies ==
    /\ pc = "visualize"
    /\ IF config.visualization
       THEN LET code == GenerateMermaidDiagram(
                            BuildFullDependencyGraph(dependency_graph), package_name)
            IN  /\ mermaid_code' = code
                /\ output' = Append(output, [stage |-> "mermaid", code |-> code])
       ELSE UNCHANGED <<mermaid_code, output>>
    /\ pc' = "exit_0"
    /\ UNCHANGED <<dependency_graph, reverse_dependencies, package_name, stack, visited,
                   package_graph, cycles, reverse_deps, line_num, line, graph_data,
                   error, config>>

Next ==
    \/ LoadConfig
    \/ LoadLine
    \/ LoadReturn
    \/ ResolveRoot
    \/ DisplayDependencyGraph
    \/ DisplayPackageDependencies
    \/ DisplayReverseDependencies
    \/ VisualizeDependencies

Spec == Init /\ [][Next]_vars

\* run() has left get_dependencies without an exception
AfterResolve == {"display_graph", "display_package", "display_reverse", "visualize", "exit_0"}

(* C5: when the requested root is not a key of a non-empty parsed graph,    *)
(* root resolution selects the first key in insertion order, and reports    *)
(* the fallback: what get_dependencies leaves behind differs from what it   *)
(* leaves behind when that first key was requested exactly.                 *)
C5_FallbackReported ==
    (/\ pc \in AfterResolve
     /\ dependency_graph # EmptyDict
     /\ ~DictHas(dependency_graph, config.name)) =>
        /\ package_name = dependency_graph[1].k
        /\ [package_name         |-> package_name,
            reverse_dependencies |-> reverse_dependencies,
            returned             |-> EmptyDict,
            printed              |-> <<>>]
               = GetDependenciesOutcome(dependency_graph, config.name)
        /\ GetDependenciesOutcome(dependency_graph, config.name)
               # GetDependenciesOutcome(dependency_graph, package_name)

(* C6: root resolution against an empty dependency graph ends in a          *)
(* NoRootAvailable error outcome; the run does not go on to produce the     *)
(* adjacency report, the package subgraph or the diagram.                   *)
C6_EmptyGraphNoRootAvailable ==
    (/\ pc \notin {"load_config", "load", "resolve"}
     /\ error.type # "GraphError"
     /\ dependency_graph = EmptyDict) =>
        /\ pc = "exit_1"
        /\ error.type = "NoRootAvailable"
        /\ \A i \in 1..Len(output) :
               output[i].stage \notin {"full_graph", "package", "mermaid"}

\* matches ^[A-Z]+$
IsLatinUpperId(s) == s # <<>> /\ \A i \in 1..Len(s) : s[i] \in LatinUpperChars

(* C7: for every description load_graph_from_file accepts, every key of the *)
(* returned graph and every entry of every dependency list is a non-empty   *)
(* string of the letters A-Z only.                                          *)
C7_IdentifiersLatinUppercase ==
    \A i \in 1..Len(dependency_graph) :
        /\ IsLatinUpperId(dependency_graph[i].k)
        /\ \A j \in 1..Len(dependency_graph[i].v) :
               IsLatinUpperId(dependency_graph[i].v[j])

\* the line breaks the format contract: it is not ignored, and it has no colon, or
\* the text before the colon or a non-empty token after it is no valid identifier
ViolatesFormat(raw) ==
    LET text == Strip(raw)
    IN  /\ text # <<>>
        /\ Head(text) # "#"
        /\ \/ ~InSeq(":", text)
           \/ ~IsLatinUpperId(Strip(SubSeq(text, 1, IndexOf(":", text) - 1)))
           \/ LET tokens == Split(SubSeq(text, IndexOf(":", text) + 1, Len(text)),
                                  ",", <<>>)
              IN  \E j \in 1..Len(tokens) :
                      Strip(tokens[j]) # <<>> /\ ~IsLatinUpperId(Strip(tokens[j]))

(* C8: a line that violates the format (no colon, an invalid package        *)
(* identifier, an invalid dependency token) makes parsing fail with a       *)
(* format error that carries the 1-based number of that line, the first     *)
(* violating one, and no graph is returned or stored.                       *)
C8_ViolationFailsWithLineNumber ==
    (line_num >= 1 /\ ViolatesFormat(line)) =>
        /\ pc = "exit_1"
        /\ error.type = "GraphError"
        /\ "line_num" \in DOMAIN error.cause
        /\ error.cause.line_num = line_num
        /\ dependency_graph = EmptyDict

====
